---- MODULE Spec2Model ----

(***************************************************************************)
(* Model of the dispatch-number cache of the BHCP backend (src/index.js,   *)
(* the module of lines 157-489): the in-memory lastDispatchNumbers, the    *)
(* rescan updateLastNumbersFromSheet and the three HTTP handlers that      *)
(* touch the cache.  A JavaScript string is a sequence of one-character    *)
(* strings, a JavaScript number is a record that is either NaN or an       *)
(* integer.  Each handler runs to its next await as one step; the          *)
(* spreadsheet service answers a pending call in a step of its own.        *)
(***************************************************************************)
EXTENDS Integers, Sequences, FiniteSets, TLC

\* Bounds of the model.
NSlots == 2
MaxRequests == 3
\* Longest dispatch number the parsers are run on
MaxStrLen == 5

Slots == 1..NSlots

(***************************************************************************)
(* JavaScript values                                                       *)
(***************************************************************************)
Num(n) == [nan |-> FALSE, val |-> n]
NaN == [nan |-> TRUE, val |-> 0]

\* x + 1 on a JavaScript number
PlusOne(x) == IF x.nan THEN NaN ELSE Num(x.val + 1)

\* Variant of MathMax that keeps the candidate whatever the current value
MathMaxSecond(a, b) == b
\* Math.max(a, b): NaN when either argument is NaN
MathMax(a, b) ==
    IF a.nan \/ b.nan THEN NaN
    ELSE IF a.val >= b.val THEN a ELSE b

\* undefined, as a cell or a body field that is not there
Undefined == <<"undefined">>

\* JavaScript truthiness of a string-or-undefined value
Truthy(x) == x # Undefined /\ x # <<>>

Digits == {"0", "1", "2", "3", "4", "5", "6", "7", "8", "9"}

DigitVal(c) ==
    CASE c = "0" -> 0 [] c = "1" -> 1 [] c = "2" -> 2 [] c = "3" -> 3
      [] c = "4" -> 4 [] c = "5" -> 5 [] c = "6" -> 6 [] c = "7" -> 7
      [] c = "8" -> 8 [] c = "9" -> 9

AllDigits(s, i, j) == \A k \in i..j : s[k] \in Digits

\* parseInt of a string of decimal digits
RECURSIVE ParseDigits(_)
ParseDigits(ds) ==
    IF ds = <<>> THEN 0
    ELSE 10 * ParseDigits(SubSeq(ds, 1, Len(ds) - 1)) + DigitVal(ds[Len(ds)])

(***************************************************************************)
(* The two dispatch-number grammars (the regular expressions of the rescan *)
(* and of addEntry)                                                        *)
(***************************************************************************)
Null == <<"null">>

\* dispatchNum.match(/(\d+)-(\d+)$/): the places of a hyphen that has a digit
\* before it and only digits, at least one, from it to the end of the input
LetterHyphens(s) ==
    {j \in 2..(Len(s) - 1) :
        /\ s[j] = "-"
        /\ s[j - 1] \in Digits
        /\ AllDigits(s, j + 1, Len(s))}

\* Variant of MatchLetter that takes match[1], the number before the hyphen
MatchLetterFirstGroup(s) ==
    IF LetterHyphens(s) = {} THEN Null
    ELSE LET j == CHOOSE h \in LetterHyphens(s) : TRUE
             starts == {i \in 1..(j - 1) : AllDigits(s, i, j - 1)}
         IN  SubSeq(s, CHOOSE i \in starts : \A k \in starts : i <= k, j - 1)
\* match[2] of /(\d+)-(\d+)$/, or null when the pattern does not match
MatchLetter(s) ==
    IF LetterHyphens(s) = {} THEN Null
    ELSE LET j == CHOOSE h \in LetterHyphens(s) : TRUE
         IN  SubSeq(s, j + 1, Len(s))

\* Variant of MatchOther for /(\d)$/: the last digit alone
MatchOtherLastDigit(s) ==
    IF Len(s) >= 1 /\ s[Len(s)] \in Digits THEN <<s[Len(s)]>> ELSE Null
\* match[1] of /(\d+)$/: the leftmost start of an all-digit suffix, or null
MatchOther(s) ==
    LET starts == {i \in 1..Len(s) : AllDigits(s, i, Len(s))}
    IN  IF starts = {} THEN Null
        ELSE SubSeq(s, CHOOSE i \in starts : \A k \in starts : i <= k, Len(s))

(***************************************************************************)
(* The cache and its three update policies                                 *)
(***************************************************************************)
LetterType == <<"L", "e", "t", "t", "e", "r">>

Zero == [letters |-> Num(0), others |-> Num(0)]

\* row[i] of a row read from the sheet (0-based, as in the source)
Cell(row, i) == IF i + 1 <= Len(row) THEN row[i + 1] ELSE Undefined

\* Variant of RowUpdate that adds the one after taking the maximum
RowUpdatePlusAfterMax(cache, row) ==
    IF Truthy(Cell(row, 0)) /\ Truthy(Cell(row, 3))
    THEN LET dispatchNum == Cell(row, 0)
             fileType == Cell(row, 3)
         IN  IF fileType = LetterType
             THEN LET m == MatchLetter(dispatchNum)
                  IN  IF m # Null
                      THEN [cache EXCEPT !.letters =
                               PlusOne(MathMax(cache.letters, Num(ParseDigits(m))))]
                      ELSE cache
             ELSE LET m == MatchOther(dispatchNum)
                  IN  IF m # Null
                      THEN [cache EXCEPT !.others =
                               PlusOne(MathMax(cache.others, Num(ParseDigits(m))))]
                      ELSE cache
    ELSE cache
\* Variant of RowUpdate that does not test row[3]: a row with no file type is
\* taken as a row of another class
RowUpdateNoTypeCheck(cache, row) ==
    IF Truthy(Cell(row, 0))
    THEN LET dispatchNum == Cell(row, 0)
             fileType == Cell(row, 3)
         IN  IF fileType = LetterType
             THEN LET m == MatchLetter(dispatchNum)
                  IN  IF m # Null
                      THEN [cache EXCEPT !.letters =
                               MathMax(cache.letters, PlusOne(Num(ParseDigits(m))))]
                      ELSE cache
             ELSE LET m == MatchOther(dispatchNum)
                  IN  IF m # Null
                      THEN [cache EXCEPT !.others =
                               MathMax(cache.others, PlusOne(Num(ParseDigits(m))))]
                      ELSE cache
    ELSE cache
\* The body of dataRows.forEach: one row merged into the cache
RowUpdate(cache, row) ==
    IF Truthy(Cell(row, 0)) /\ Truthy(Cell(row, 3))
    THEN LET dispatchNum == Cell(row, 0)
             fileType == Cell(row, 3)
         IN  IF fileType = LetterType
             THEN LET m == MatchLetter(dispatchNum)
                  IN  IF m # Null
                      THEN [cache EXCEPT !.letters =
                               MathMax(cache.letters, PlusOne(Num(ParseDigits(m))))]
                      ELSE cache
             ELSE LET m == MatchOther(dispatchNum)
                  IN  IF m # Null
                      THEN [cache EXCEPT !.others =
                               MathMax(cache.others, PlusOne(Num(ParseDigits(m))))]
                      ELSE cache
    ELSE cache

\* Variant of DataRows that keeps the first row
DataRowsAll(rows) == rows
\* rows.slice(1)
DataRows(rows) == IF rows = <<>> THEN <<>> ELSE Tail(rows)

\* dataRows.forEach(...), in row order
RECURSIVE ForEachRow(_, _)
ForEachRow(cache, rows) ==
    IF rows = <<>> THEN cache
    ELSE ForEachRow(RowUpdate(cache, Head(rows)), Tail(rows))

\* Variant of updateLastNumbersFromSheet whose catch resets the cache
UpdateFromSheetResetOnError(cache, ok, rows) ==
    IF ok THEN ForEachRow(cache, DataRows(rows)) ELSE Zero
\* Variant of updateLastNumbersFromSheet that scans from {0, 0}
UpdateFromSheetFresh(cache, ok, rows) ==
    IF ok THEN ForEachRow(Zero, DataRows(rows)) ELSE cache
\* updateLastNumbersFromSheet once the read has settled: the rows are merged
\* when it resolved, and the catch leaves the cache alone when it rejected
updateLastNumbersFromSheet(cache, ok, rows) ==
    IF ok THEN ForEachRow(cache, DataRows(rows)) ELSE cache

\* Variant of Advance that merges with Math.max as the rescan does
AdvanceMax(cache, fileType, dispatchNumber) ==
    IF fileType = LetterType
    THEN LET m == MatchLetter(dispatchNumber)
         IN  IF m # Null
             THEN [cache EXCEPT !.letters =
                      MathMax(cache.letters, PlusOne(Num(ParseDigits(m))))]
             ELSE cache
    ELSE LET m == MatchOther(dispatchNumber)
         IN  IF m # Null
             THEN [cache EXCEPT !.others =
                      MathMax(cache.others, PlusOne(Num(ParseDigits(m))))]
             ELSE cache
\* Variant of Advance without the test of the match: parseInt of a missing
\* group is NaN
AdvanceNoMatchNaN(cache, fileType, dispatchNumber) ==
    IF fileType = LetterType
    THEN LET m == MatchLetter(dispatchNumber)
         IN  [cache EXCEPT !.letters =
                 PlusOne(IF m # Null THEN Num(ParseDigits(m)) ELSE NaN)]
    ELSE LET m == MatchOther(dispatchNumber)
         IN  [cache EXCEPT !.others =
                 PlusOne(IF m # Null THEN Num(ParseDigits(m)) ELSE NaN)]
\* Variant of Advance in which a Letter number that is not of the Letter
\* grammar is tried against the grammar of the other classes
AdvanceFallback(cache, fileType, dispatchNumber) ==
    LET o == MatchOther(dispatchNumber)
        asOther == IF o # Null
                   THEN [cache EXCEPT !.others = PlusOne(Num(ParseDigits(o)))]
                   ELSE cache
    IN  IF fileType = LetterType
        THEN LET m == MatchLetter(dispatchNumber)
             IN  IF m # Null
                 THEN [cache EXCEPT !.letters = PlusOne(Num(ParseDigits(m)))]
                 ELSE asOther
        ELSE asOther
\* The cache update of addEntry after the append (advance)
Advance(cache, fileType, dispatchNumber) ==
    IF fileType = LetterType
    THEN LET m == MatchLetter(dispatchNumber)
         IN  IF m # Null
             THEN [cache EXCEPT !.letters = PlusOne(Num(ParseDigits(m)))]
             ELSE cache
    ELSE LET m == MatchOther(dispatchNumber)
         IN  IF m # Null
             THEN [cache EXCEPT !.others = PlusOne(Num(ParseDigits(m)))]
             ELSE cache

\* A JSON value of a request body: a number, a string, or absent
JNum(n) == [tag |-> "num", num |-> n, str |-> <<>>]
JStr(s) == [tag |-> "str", num |-> 0, str |-> s]
JUndef == [tag |-> "undef", num |-> 0, str |-> <<>>]

\* parseInt(v): an integer is itself; a string is its optional minus sign and
\* its leading decimal digits, NaN when it has none; undefined is NaN
LeadingDigits(s) ==
    LET ends == {k \in 0..Len(s) : AllDigits(s, 1, k)}
    IN  SubSeq(s, 1, CHOOSE k \in ends : \A e \in ends : e <= k)
ParseInt(v) ==
    IF v.tag = "num" THEN Num(v.num)
    ELSE IF v.tag = "str"
    THEN LET neg == Len(v.str) >= 1 /\ v.str[1] = "-"
             rest == IF neg THEN Tail(v.str) ELSE v.str
             ds == LeadingDigits(rest)
         IN  IF ds = <<>> THEN NaN
             ELSE IF neg THEN Num(0 - ParseDigits(ds)) ELSE Num(ParseDigits(ds))
    ELSE NaN

\* Variant of SetNext that writes both fields
SetNextBoth(cache, type, newTotal) ==
    [letters |-> PlusOne(ParseInt(newTotal)), others |-> PlusOne(ParseInt(newTotal))]
\* The cache update of updateLastDispatchNumber (setNext)
SetNext(cache, type, newTotal) ==
    IF type = LetterType
    THEN [cache EXCEPT !.letters = PlusOne(ParseInt(newTotal))]
    ELSE [cache EXCEPT !.others = PlusOne(ParseInt(newTotal))]

(***************************************************************************)
(* Inputs: dispatch numbers, file types, sheets and request bodies         *)
(***************************************************************************)
S15 == <<"X", "/", "1", "-", "5">>
S19 == <<"X", "/", "1", "-", "9">>
S199 == <<"X", "/", "1", "-", "9", "9">>
S07 == <<"X", "/", "0", "7">>
SBad == <<"X", "-">>
Memo == <<"M", "e", "m", "o">>
OtherType == <<"o", "t", "h", "e", "r">>
DateCell == <<"d">>
SubjectCell == <<"s">>
HeaderRow == <<<<"N", "o">>, <<"D">>, <<"S">>, <<"T">>>>

SheetRow(dn, ft) == <<dn, DateCell, SubjectCell, ft>>

\* The A:D values the spreadsheet may hold when the process starts: no rows;
\* a header and two Letter rows; a sheet whose first row is already data, with
\* a row lacking a file type, a row lacking a dispatch number and a Letter
\* row whose number is not of the Letter grammar
SheetSpecExample ==
    <<HeaderRow, SheetRow(S15, LetterType), SheetRow(S19, LetterType)>>
SheetMessy ==
    <<SheetRow(S199, LetterType), SheetRow(S07, Memo), <<S19>>,
      SheetRow(<<>>, Memo), SheetRow(S07, LetterType)>>
InitialSheets == {<<>>, SheetSpecExample, SheetMessy}

\* The body of an addEntry request: the fields the handler reads
Body(dn, date, subject, ft, cat, files) ==
    [dispatchNumber |-> dn, date |-> date, subject |-> subject,
     fileType |-> ft, fileCategory |-> cat, files |-> files]

\* Entries that pass the required-field check: of both classes, of both
\* grammars, and with numbers that do not parse for their class
EntryInputs ==
    { <<S15, LetterType>>, <<S07, Memo>>, <<SBad, Memo>>, <<S07, LetterType>> }

AddEntryBodies ==
    {Body(e[1], DateCell, SubjectCell, e[2], <<"c">>, TRUE) : e \in EntryInputs}
    \cup {Body(Undefined, DateCell, SubjectCell, LetterType, <<"c">>, TRUE),
          Body(S15, <<>>, SubjectCell, LetterType, <<"c">>, TRUE),
          Body(S15, DateCell, Undefined, Memo, <<"c">>, TRUE),
          Body(S199, DateCell, SubjectCell, Undefined, <<"c">>, TRUE),
          Body(S199, DateCell, SubjectCell, Memo, Undefined, TRUE),
          Body(S199, DateCell, SubjectCell, LetterType, <<"c">>, FALSE)}

\* Bodies {type, newTotal} of updateLastDispatchNumber
SetNextInput(type, newTotal) == [type |-> type, newTotal |-> newTotal]
SetNextInputs ==
    { SetNextInput(OtherType, JNum(41)), SetNextInput(LetterType, JNum(3)),
      SetNextInput(Undefined, JStr(<<"-", "5">>)), SetNextInput(LetterType, JUndef) }

(***************************************************************************)
(* State                                                                   *)
(***************************************************************************)
VARIABLES
    lastDispatchNumbers,  \* the in-memory cache {letters, others}
    credsOk,              \* whether GOOGLE_APPLICATION_CREDENTIALS parses
    sheet,                \* columns A:D of Sheet1, the external spreadsheet
    requests,             \* requests received so far (bounds the run)
    req,                  \* the requests waiting on the spreadsheet service
    last,                 \* the handler step just taken and the response it sent
    scans                 \* the successful rescans in a row over the same rows

vars == <<lastDispatchNumbers, credsOk, sheet, requests, req, last, scans>>

IdleReq == [pc |-> "idle", dispatchNumber |-> <<>>, fileType |-> <<>>, rows |-> <<>>]

\* A handler step: its name, its request, the response sent (status 0: none
\* yet), the snapshot in the response, and the cache before the step
Event(op, r, status, hasSnap, snap, before) ==
    [op |-> op, r |-> r, status |-> status, hasSnap |-> hasSnap,
     snap |-> snap, before |-> before]

\* History of the rescans: n successful rescans in a row (counted to 2) read
\* the same rows with no other request step between them; snap is the snapshot
\* the first of them answered with
NoScans == [n |-> 0, rows |-> <<>>, snap |-> Zero]
ScanDone(rows, snap) ==
    IF scans.n >= 1 /\ scans.rows = rows
    THEN [scans EXCEPT !.n = 2]
    ELSE [n |-> 1, rows |-> rows, snap |-> snap]

Init ==
    /\ scans = NoScans
    /\ lastDispatchNumbers = Zero
    /\ credsOk \in BOOLEAN
    /\ sheet \in InitialSheets
    /\ requests = 0
    /\ req = [r \in Slots |-> IdleReq]
    /\ last = Event("start", 0, 0, FALSE, Zero, Zero)

\* The slot a new request takes: the first that holds no pending request
\* (the slots are interchangeable names of in-flight requests)
FreeSlot(r) ==
    /\ req[r].pc = "idle"
    /\ \A q \in Slots : q < r => req[q].pc # "idle"

\* initializeGoogleAPIs(): throws when the credentials do not parse
initializeGoogleAPIs == credsOk

(***************************************************************************)
(* GET /api/lastDispatchNumbers                                            *)
(***************************************************************************)
\* The response of the handler once updateLastNumbersFromSheet has returned:
\* the function catches every error, so the handler's own catch is never run
GetStatus(ok) == 200

\* The request arrives: the handler calls updateLastNumbersFromSheet, which
\* either fails in initializeGoogleAPIs (caught, and the handler answers in
\* the same turn) or issues the read and waits
GetLastDispatchNumbersStart(r) ==
    /\ FreeSlot(r)
    /\ requests < MaxRequests
    /\ requests' = requests + 1
    /\ IF initializeGoogleAPIs
       THEN /\ req' = [req EXCEPT ![r] = [IdleReq EXCEPT !.pc = "reading"]]
            /\ last' = Event("getStart", r, 0, FALSE, Zero, lastDispatchNumbers)
            /\ UNCHANGED <<lastDispatchNumbers, scans>>
       ELSE /\ lastDispatchNumbers' =
                   updateLastNumbersFromSheet(lastDispatchNumbers, FALSE, <<>>)
            /\ last' = Event("rescanFail", r, GetStatus(FALSE), TRUE,
                             lastDispatchNumbers', lastDispatchNumbers)
            /\ scans' = NoScans
            /\ UNCHANGED req
    /\ UNCHANGED <<credsOk, sheet>>

\* sheets.spreadsheets.values.get settles: it resolves with the rows the
\* sheet holds now (response.data.values || []), or it rejects
SheetsGetSettles(r) ==
    /\ req[r].pc = "reading"
    /\ \E ok \in BOOLEAN :
          req' = [req EXCEPT ![r] =
                     IF ok THEN [@ EXCEPT !.pc = "readOk", !.rows = sheet]
                     ELSE [@ EXCEPT !.pc = "readErr"]]
    /\ last' = Event("getSettled", r, 0, FALSE, Zero, lastDispatchNumbers)
    /\ UNCHANGED <<lastDispatchNumbers, credsOk, sheet, requests, scans>>

\* The rest of updateLastNumbersFromSheet and of the handler, in one turn
GetLastDispatchNumbersResume(r) ==
    /\ req[r].pc \in {"readOk", "readErr"}
    /\ LET ok == req[r].pc = "readOk"
       IN  /\ lastDispatchNumbers' =
                  updateLastNumbersFromSheet(lastDispatchNumbers, ok, req[r].rows)
           /\ last' = Event(IF ok THEN "rescanOk" ELSE "rescanFail", r,
                            GetStatus(ok), TRUE, lastDispatchNumbers',
                            lastDispatchNumbers)
           /\ scans' = IF ok THEN ScanDone(req[r].rows, lastDispatchNumbers')
                        ELSE NoScans
    /\ req' = [req EXCEPT ![r] = IdleReq]
    /\ UNCHANGED <<credsOk, sheet, requests>>

(***************************************************************************)
(* POST /api/updateLastDispatchNumber                                      *)
(***************************************************************************)
UpdateLastDispatchNumber(type, newTotal) ==
    /\ requests < MaxRequests
    /\ requests' = requests + 1
    /\ lastDispatchNumbers' = SetNext(lastDispatchNumbers, type, newTotal)
    /\ last' = Event("setNext", 0, 200, TRUE, lastDispatchNumbers',
                     lastDispatchNumbers)
    /\ scans' = NoScans
    /\ UNCHANGED <<credsOk, sheet, req>>

(***************************************************************************)
(* POST /api/addEntry                                                      *)
(***************************************************************************)
\* The required-field check
MissingRequired(b) ==
    \/ ~Truthy(b.dispatchNumber) \/ ~Truthy(b.date) \/ ~Truthy(b.subject)
    \/ ~Truthy(b.fileType) \/ ~Truthy(b.fileCategory)

\* The handler up to its await: initializeGoogleAPIs, the required-field
\* check, files.map (a TypeError when files is absent), then the append call
AddEntryStart(r, b) ==
    /\ FreeSlot(r)
    /\ requests < MaxRequests
    /\ requests' = requests + 1
    /\ IF ~initializeGoogleAPIs
       THEN /\ last' = Event("addInitFail", r, 500, FALSE, Zero, lastDispatchNumbers)
            /\ UNCHANGED req
       ELSE IF MissingRequired(b)
       THEN /\ last' = Event("addReject", r, 400, FALSE, Zero, lastDispatchNumbers)
            /\ UNCHANGED req
       ELSE IF ~b.files
       THEN /\ last' = Event("addFilesThrow", r, 500, FALSE, Zero, lastDispatchNumbers)
            /\ UNCHANGED req
       ELSE /\ req' = [req EXCEPT ![r] =
                          [IdleReq EXCEPT !.pc = "appending",
                                          !.dispatchNumber = b.dispatchNumber,
                                          !.fileType = b.fileType]]
            /\ last' = Event("addStart", r, 0, FALSE, Zero, lastDispatchNumbers)
    /\ scans' = NoScans
    /\ UNCHANGED <<lastDispatchNumbers, credsOk, sheet>>

\* sheets.spreadsheets.values.append settles: the row is in the sheet and the
\* call resolves, or the call rejects and the sheet is as it was
SheetsAppendSettles(r) ==
    /\ req[r].pc = "appending"
    /\ \/ /\ sheet' = Append(sheet, SheetRow(req[r].dispatchNumber, req[r].fileType))
          /\ req' = [req EXCEPT ![r].pc = "appendOk"]
       \/ /\ req' = [req EXCEPT ![r].pc = "appendErr"]
          /\ UNCHANGED sheet
    /\ last' = Event("addSettled", r, 0, FALSE, Zero, lastDispatchNumbers)
    /\ scans' = NoScans
    /\ UNCHANGED <<lastDispatchNumbers, credsOk, requests>>

\* Variant of AddEntryAfterAppend that advances whether or not the append
\* resolved
AddEntryAfterAppendAlways(cache, ok, fileType, dispatchNumber) ==
    Advance(cache, fileType, dispatchNumber)
\* The cache after the await: advanced when the append resolved, untouched
\* when it rejected (control is in the catch)
AddEntryAfterAppend(cache, ok, fileType, dispatchNumber) ==
    IF ok THEN Advance(cache, fileType, dispatchNumber) ELSE cache

\* Variant of AddEntryResume with no catch: a rejected append is never
\* answered
AddEntryResumeNoCatch(r) ==
    /\ req[r].pc = "appendOk"
    /\ lastDispatchNumbers' =
           AddEntryAfterAppend(lastDispatchNumbers, TRUE,
                               req[r].fileType, req[r].dispatchNumber)
    /\ last' = Event("addOk", r, 200, FALSE, Zero, lastDispatchNumbers)
    /\ req' = [req EXCEPT ![r] = IdleReq]
    /\ scans' = NoScans
    /\ UNCHANGED <<credsOk, sheet, requests>>
\* The handler after its await
AddEntryResume(r) ==
    /\ req[r].pc \in {"appendOk", "appendErr"}
    /\ LET ok == req[r].pc = "appendOk"
       IN  /\ lastDispatchNumbers' =
                  AddEntryAfterAppend(lastDispatchNumbers, ok,
                                      req[r].fileType, req[r].dispatchNumber)
           /\ last' = Event(IF ok THEN "addOk" ELSE "addFail", r,
                            IF ok THEN 200 ELSE 500, FALSE, Zero,
                            lastDispatchNumbers)
    /\ req' = [req EXCEPT ![r] = IdleReq]
    /\ scans' = NoScans
    /\ UNCHANGED <<credsOk, sheet, requests>>

Next ==
    \/ \E r \in Slots : GetLastDispatchNumbersStart(r)
    \/ \E r \in Slots : SheetsGetSettles(r)
    \/ \E r \in Slots : GetLastDispatchNumbersResume(r)
    \/ \E b \in SetNextInputs : UpdateLastDispatchNumber(b.type, b.newTotal)
    \/ \E r \in Slots, b \in AddEntryBodies : AddEntryStart(r, b)
    \/ \E r \in Slots : SheetsAppendSettles(r)
    \/ \E r \in Slots : AddEntryResume(r)

Spec == Init /\ [][Next]_vars

\* The same handlers with one request at a time: a request is received only
\* when no other request is waiting on the spreadsheet service
Quiet == \A q \in Slots : req[q].pc = "idle"

NextSeq ==
    \/ Quiet /\ \E r \in Slots : GetLastDispatchNumbersStart(r)
    \/ \E r \in Slots : SheetsGetSettles(r)
    \/ \E r \in Slots : GetLastDispatchNumbersResume(r)
    \/ Quiet /\ \E b \in SetNextInputs : UpdateLastDispatchNumber(b.type, b.newTotal)
    \/ Quiet /\ \E r \in Slots, b \in AddEntryBodies : AddEntryStart(r, b)
    \/ \E r \in Slots : SheetsAppendSettles(r)
    \/ \E r \in Slots : AddEntryResume(r)

SpecSeq == Init /\ [][NextSeq]_vars

(***************************************************************************)
(* The two parsers on every short dispatch number: the process starts on a *)
(* sheet with a header and one row, serves one request, a rescan of that   *)
(* row or an addEntry of the same dispatch number and class                *)
(***************************************************************************)
\* Characters of a dispatch number: a letter, the hyphen, two digits
ParseAlphabet == {"X", "-", "0", "7"}
DispatchStrings == UNION {[1..k -> ParseAlphabet] : k \in 0..MaxStrLen}

InitParse ==
    /\ scans = NoScans
    /\ lastDispatchNumbers = Zero
    /\ credsOk = TRUE
    /\ sheet \in {<<HeaderRow, SheetRow(s, ft)>> :
                     s \in DispatchStrings, ft \in {LetterType, Memo}}
    /\ requests = 0
    /\ req = [r \in Slots |-> IdleReq]
    /\ last = Event("start", 0, 0, FALSE, Zero, Zero)

NextParse ==
    \/ requests = 0 /\ \E r \in Slots : GetLastDispatchNumbersStart(r)
    \/ \E r \in Slots : SheetsGetSettles(r)
    \/ \E r \in Slots : GetLastDispatchNumbersResume(r)
    \/ requests = 0 /\ \E r \in Slots :
          AddEntryStart(r, Body(sheet[2][1], DateCell, SubjectCell,
                                sheet[2][4], <<"c">>, TRUE))
    \/ \E r \in Slots : SheetsAppendSettles(r)
    \/ \E r \in Slots : AddEntryResume(r)

SpecParse == InitParse /\ [][NextParse]_vars

(***************************************************************************)
(* addEntry requests alone, on an empty sheet, with two parsable dispatch  *)
(* numbers of each class: the requests that race on one field              *)
(***************************************************************************)
RaceEntries ==
    { <<S15, LetterType>>, <<S199, LetterType>>, <<S07, Memo>>, <<S199, Memo>> }
RaceBodies ==
    {Body(e[1], DateCell, SubjectCell, e[2], <<"c">>, TRUE) : e \in RaceEntries}

InitRace ==
    /\ scans = NoScans
    /\ lastDispatchNumbers = Zero
    /\ credsOk = TRUE
    /\ sheet = <<>>
    /\ requests = 0
    /\ req = [r \in Slots |-> IdleReq]
    /\ last = Event("start", 0, 0, FALSE, Zero, Zero)

NextRace ==
    \/ \E r \in Slots, b \in RaceBodies : AddEntryStart(r, b)
    \/ \E r \in Slots : SheetsAppendSettles(r)
    \/ \E r \in Slots : AddEntryResume(r)

SpecRace == InitRace /\ [][NextRace]_vars

(***************************************************************************)
(* The three handlers under fair scheduling: every pending call to the     *)
(* spreadsheet service settles, and the event loop runs every continuation *)
(* whose call has settled.  One body of each outcome per handler.          *)
(***************************************************************************)
LiveBodies ==
    { Body(S15, DateCell, SubjectCell, LetterType, <<"c">>, TRUE),
      Body(Undefined, DateCell, SubjectCell, LetterType, <<"c">>, TRUE),
      Body(S199, DateCell, SubjectCell, LetterType, <<"c">>, FALSE) }
LiveSetNextInputs == { SetNextInput(LetterType, JNum(3)) }

InitLive == Init /\ sheet = <<>>

NextLive ==
    \/ \E r \in Slots : GetLastDispatchNumbersStart(r)
    \/ \E r \in Slots : SheetsGetSettles(r)
    \/ \E r \in Slots : GetLastDispatchNumbersResume(r)
    \/ \E b \in LiveSetNextInputs : UpdateLastDispatchNumber(b.type, b.newTotal)
    \/ \E r \in Slots, b \in LiveBodies : AddEntryStart(r, b)
    \/ \E r \in Slots : SheetsAppendSettles(r)
    \/ \E r \in Slots : AddEntryResume(r)

Fairness ==
    \A r \in Slots :
        /\ WF_vars(SheetsGetSettles(r))
        /\ WF_vars(GetLastDispatchNumbersResume(r))
        /\ WF_vars(SheetsAppendSettles(r))
        /\ WF_vars(AddEntryResume(r))

SpecLive == InitLive /\ [][NextLive]_vars /\ Fairness

(***************************************************************************)
(* addEntry requests one at a time, on a sheet that is empty or holds its  *)
(* header row only: the sheet is the header, if any, and the entries       *)
(* appended so far, in the order of their requests                         *)
(***************************************************************************)
AppendEntries == EntryInputs \cup RaceEntries \cup { <<S19, Memo>> }
AppendBodies ==
    {Body(e[1], DateCell, SubjectCell, e[2], <<"c">>, TRUE) : e \in AppendEntries}

InitAppend ==
    /\ scans = NoScans
    /\ lastDispatchNumbers = Zero
    /\ credsOk = TRUE
    /\ sheet \in {<<>>, <<HeaderRow>>}
    /\ requests = 0
    /\ req = [r \in Slots |-> IdleReq]
    /\ last = Event("start", 0, 0, FALSE, Zero, Zero)

NextAppend ==
    \/ Quiet /\ \E r \in Slots, b \in AppendBodies : AddEntryStart(r, b)
    \/ \E r \in Slots : SheetsAppendSettles(r)
    \/ \E r \in Slots : AddEntryResume(r)

SpecAppend == InitAppend /\ [][NextAppend]_vars
(***************************************************************************)
(* Properties                                                              *)
(***************************************************************************)
\* The largest element of a non-empty set of integers
SetMax(S) == CHOOSE m \in S : \A x \in S : x <= m

\* b is a lower number than a
Lower(a, b) == ~a.nan /\ ~b.nan /\ b.val < a.val

\* b is not below a: a number at least a, or a NaN that stayed NaN
NotLowered(a, b) == IF a.nan THEN b.nan ELSE ~b.nan /\ b.val >= a.val

\* The rows of a read that count: after the first row, with a dispatch number
\* in column A and a file type in column D
CountedRows(rows) ==
    {k \in 2..Len(rows) :
        Len(rows[k]) >= 4 /\ rows[k][1] # <<>> /\ rows[k][4] # <<>>}

\* The numbers derived from the counted rows of each class
LetterNumbers(rows) ==
    {ParseDigits(MatchLetter(rows[k][1])) :
        k \in {i \in CountedRows(rows) :
                  rows[i][4] = LetterType /\ MatchLetter(rows[i][1]) # Null}}
OtherNumbers(rows) ==
    {ParseDigits(MatchOther(rows[k][1])) :
        k \in {i \in CountedRows(rows) :
                  rows[i][4] # LetterType /\ MatchOther(rows[i][1]) # Null}}

\* max(value before, 1 + the largest derived number); the value before when
\* no number was derived; a field that holds NaN keeps it
MergedField(before, numbers) ==
    IF numbers = {} \/ before.nan THEN before
    ELSE IF before.val >= 1 + SetMax(numbers) THEN before
    ELSE Num(1 + SetMax(numbers))

\* C1: after a successful rescan each field is the maximum of its value
\* before and one more than the largest number derived from the counted
\* rows of its class, and is unchanged when no row of the class counts.
C1_RescanIsMaxOverCountedRows ==
    [][last'.op = "rescanOk" =>
          LET rows == req[last'.r].rows
          IN  /\ lastDispatchNumbers'.letters =
                    MergedField(lastDispatchNumbers.letters, LetterNumbers(rows))
              /\ lastDispatchNumbers'.others =
                    MergedField(lastDispatchNumbers.others, OtherNumbers(rows))]_vars

\* A rescan from {0, 0} over [header, X/1-5 Letter, X/1-9 Letter] gave 10.
C1_Witness ==
    /\ last.op = "rescanOk"
    /\ last.before = Zero
    /\ sheet = SheetSpecExample
    /\ lastDispatchNumbers = [letters |-> Num(10), others |-> Num(0)]

\* C2: a successful rescan never lowers a cache field.
C2_RescanNeverDecreases ==
    [][last'.op = "rescanOk" =>
          /\ NotLowered(lastDispatchNumbers.letters, lastDispatchNumbers'.letters)
          /\ NotLowered(lastDispatchNumbers.others, lastDispatchNumbers'.others)]_vars

\* A rescan whose rows imply 8 for the other class left the field at 42.
C2_Witness ==
    /\ last.op = "rescanOk"
    /\ sheet = SheetMessy
    /\ last.before.others = Num(42)
    /\ lastDispatchNumbers.others = Num(42)

\* C3: the advance of addEntry sets the field of the entry's class to the
\* derived number plus one whenever the dispatch number parses, whatever the
\* field held before.
C3_AdvanceOverwrites ==
    [][last'.op = "addOk" =>
          LET dn == req[last'.r].dispatchNumber
              ft == req[last'.r].fileType
          IN  /\ (ft = LetterType /\ MatchLetter(dn) # Null) =>
                    lastDispatchNumbers'.letters = Num(ParseDigits(MatchLetter(dn)) + 1)
              /\ (ft # LetterType /\ MatchOther(dn) # Null) =>
                    lastDispatchNumbers'.others = Num(ParseDigits(MatchOther(dn)) + 1)]_vars

\* An advance for X/1-5 set nextLetterNumber to 6 when it was 10.
C3_Witness ==
    /\ last.op = "addOk"
    /\ last.before.letters = Num(10)
    /\ lastDispatchNumbers.letters = Num(6)

\* C4: updateLastDispatchNumber always answers 200 with the new snapshot,
\* leaves the field of the other class alone, and for an integer newTotal
\* sets the field of the given class to newTotal + 1.
C4_SetNextOverwrites ==
    [][\A b \in SetNextInputs :
          UpdateLastDispatchNumber(b.type, b.newTotal) =>
             /\ last'.status = 200
             /\ last'.hasSnap /\ last'.snap = lastDispatchNumbers'
             /\ IF b.type = LetterType
                THEN /\ lastDispatchNumbers'.others = lastDispatchNumbers.others
                     /\ b.newTotal.tag = "num" =>
                           lastDispatchNumbers'.letters = Num(b.newTotal.num + 1)
                ELSE /\ lastDispatchNumbers'.letters = lastDispatchNumbers.letters
                     /\ b.newTotal.tag = "num" =>
                           lastDispatchNumbers'.others = Num(b.newTotal.num + 1)]_vars

\* setNext("other", 41) moved nextOtherNumber to 42 and answered with it.
C4_Witness ==
    /\ last.op = "setNext"
    /\ last.status = 200
    /\ last.before.others # Num(42)
    /\ lastDispatchNumbers.others = Num(42)
    /\ last.snap = lastDispatchNumbers

\* C5: a rescan that could not read the rows is reported to the client as a
\* failed response.
C5_SourceFailureIsReported ==
    last.op = "rescanFail" => last.status = 500

\* C6: a rescan that could not read the rows leaves both cache fields as they
\* were.
C6_FailedRescanKeepsCache ==
    [][last'.op = "rescanFail" => lastDispatchNumbers' = lastDispatchNumbers]_vars

\* The read was rejected while the cache held values other than {0, 0}.
C6_Witness ==
    /\ credsOk
    /\ last.op = "rescanFail"
    /\ last.before # Zero
    /\ lastDispatchNumbers = last.before

AddEntryOps == {"addInitFail", "addReject", "addFilesThrow", "addStart",
                "addSettled", "addOk", "addFail"}

\* C7: addEntry changes the cache only in the step after its append has
\* resolved, with the row in the sheet; a 400 or 500 answer leaves the cache
\* as it was, and a rejected body issues no append.
C7_CacheChangesOnlyAfterAppend ==
    [][last'.op \in AddEntryOps =>
          /\ last'.op \in {"addInitFail", "addFilesThrow", "addFail"} =>
                last'.status = 500 /\ lastDispatchNumbers' = lastDispatchNumbers
          /\ last'.op = "addReject" =>
                /\ last'.status = 400
                /\ lastDispatchNumbers' = lastDispatchNumbers
                /\ sheet' = sheet
                /\ req' = req
          /\ lastDispatchNumbers' # lastDispatchNumbers =>
                /\ last'.op = "addOk"
                /\ req[last'.r].pc = "appendOk"
                /\ \E i \in 1..Len(sheet) :
                      sheet[i] = SheetRow(req[last'.r].dispatchNumber,
                                          req[last'.r].fileType)]_vars

\* An append was rejected, the answer was 500 and the cache kept its values.
C7_Witness ==
    /\ last.op = "addFail"
    /\ last.status = 500
    /\ last.before # Zero
    /\ lastDispatchNumbers = last.before

\* C8 as claimed: no step lowers a cache field.
C8_NeverLowered ==
    [][/\ ~Lower(lastDispatchNumbers.letters, lastDispatchNumbers'.letters)
       /\ ~Lower(lastDispatchNumbers.others, lastDispatchNumbers'.others)]_vars

\* C8 as amended: a cache field is lowered only by the advance of a
\* successful addEntry or by updateLastDispatchNumber, never by a rescan.
C8_LoweredOnlyByOverwrite ==
    [][(\/ Lower(lastDispatchNumbers.letters, lastDispatchNumbers'.letters)
        \/ Lower(lastDispatchNumbers.others, lastDispatchNumbers'.others))
       => last'.op \in {"addOk", "setNext"}]_vars

\* updateLastDispatchNumber lowered nextOtherNumber from 42.
C8_Witness ==
    /\ last.op = "setNext"
    /\ last.before.others = Num(42)
    /\ Lower(last.before.others, lastDispatchNumbers.others)

\* What a rescan leaves in a field: the rebuilt value when the rows derived
\* one (a rebuilt value is 0 only when they derived none) and it is above
\* the value before, and the value before otherwise
KeptOrRebuilt(before, fresh) ==
    IF fresh = Num(0) \/ before.nan \/ before.val >= fresh.val
    THEN before ELSE fresh

\* The cache a rescan starting from {0, 0} computes from the rows
Rebuilt(rows) == updateLastNumbersFromSheet(Zero, TRUE, rows)

\* C9 as claimed: with one request at a time, a successful rescan leaves the
\* cache equal to what a rescan from {0, 0} computes from the same rows.
C9_RescanRebuilds ==
    [][last'.op = "rescanOk" =>
          lastDispatchNumbers' = Rebuilt(req[last'.r].rows)]_vars

\* C9 as amended: a successful rescan sets a field to the value a rescan
\* from {0, 0} computes from the same rows only when the rows derive a number
\* for the field and that value is above the field; otherwise the field keeps
\* the value it had before the rescan.
C9_RescanKeepsOrRebuilds ==
    [][last'.op = "rescanOk" =>
          LET fresh == Rebuilt(req[last'.r].rows)
          IN  /\ lastDispatchNumbers'.letters =
                    KeptOrRebuilt(lastDispatchNumbers.letters, fresh.letters)
              /\ lastDispatchNumbers'.others =
                    KeptOrRebuilt(lastDispatchNumbers.others, fresh.others)]_vars

\* A rescan after setNext("other", 41) kept 42 where the rows rebuild to less.
C9_Witness ==
    /\ last.op = "rescanOk"
    /\ last.before.others = Num(42)
    /\ lastDispatchNumbers.others = Num(42)
    /\ Rebuilt(sheet).others # Num(42)
    /\ lastDispatchNumbers.letters = Rebuilt(sheet).letters
    /\ lastDispatchNumbers.letters # Num(0)

\* C10: two successful rescans in a row over the same rows, with no other
\* request step between them, answer with identical snapshots.
C10_RescanIdempotent ==
    (last.op = "rescanOk" /\ scans.n = 2) =>
        (last.hasSnap /\ last.snap = scans.snap)

\* A second rescan in a row answered, from a cache that setNext had changed
\* and the first rescan had raised.
C10_Witness ==
    /\ last.op = "rescanOk"
    /\ scans.n = 2
    /\ scans.snap.others = Num(42)
    /\ scans.snap.letters = Num(10)

(***************************************************************************)
(* The two grammars, stated on the text of a dispatch number               *)
(***************************************************************************)
\* The digits a string ends with, as many as there are
RECURSIVE TrailingRun(_)
TrailingRun(s) ==
    IF s = <<>> THEN <<>>
    ELSE IF s[Len(s)] \in {"0", "1", "2", "3", "4", "5", "6", "7", "8", "9"}
    THEN Append(TrailingRun(SubSeq(s, 1, Len(s) - 1)), s[Len(s)])
    ELSE <<>>

\* s ends in a digit
EndsInDigits(s) == TrailingRun(s) # <<>>

\* s ends in <digits>-<digits>
EndsInDigitPair(s) ==
    LET t == TrailingRun(s)
        p == SubSeq(s, 1, Len(s) - Len(t))
    IN  /\ t # <<>>
        /\ Len(p) >= 2
        /\ p[Len(p)] = "-"
        /\ TrailingRun(SubSeq(p, 1, Len(p) - 1)) # <<>>

\* The decimal value of a string of digits, read left to right
DecimalTable == <<"0", "1", "2", "3", "4", "5", "6", "7", "8", "9">>
RECURSIVE DecimalFrom(_, _)
DecimalFrom(ds, acc) ==
    IF ds = <<>> THEN acc
    ELSE DecimalFrom(Tail(ds),
                     10 * acc + (CHOOSE i \in 1..10 : DecimalTable[i] = Head(ds)) - 1)
Decimal(ds) == DecimalFrom(ds, 0)

\* The dispatch number derives no number for its class
Unparsable(fileType, dispatchNumber) ==
    IF fileType = LetterType THEN ~EndsInDigitPair(dispatchNumber)
    ELSE ~EndsInDigits(dispatchNumber)

\* C11: when the dispatch number of an appended entry derives no number for
\* its class (a Letter number that does not end in digits-hyphen-digits, any
\* other number that does not end in a digit), the advance changes neither
\* field and the request is still answered as a success.
C11_UnparsableAdvanceIsNoOp ==
    [][(/\ last'.op = "addOk"
        /\ Unparsable(req[last'.r].fileType, req[last'.r].dispatchNumber))
          => /\ lastDispatchNumbers' = lastDispatchNumbers
             /\ last'.status = 200]_vars

\* The entry "X-" of class Memo was appended and answered with 200, and the
\* cache still holds what setNext had stored.
C11_Witness ==
    /\ last.op = "addOk"
    /\ last.status = 200
    /\ sheet = <<SheetRow(SBad, Memo)>>
    /\ lastDispatchNumbers = last.before
    /\ lastDispatchNumbers.others = Num(42)

\* C12: in every reachable state both fields of the cache are non-negative
\* integers.
C12_FieldsAreNonNegativeIntegers ==
    /\ ~lastDispatchNumbers.letters.nan
    /\ lastDispatchNumbers.letters.val \in Nat
    /\ ~lastDispatchNumbers.others.nan
    /\ lastDispatchNumbers.others.val \in Nat

\* C13: for the class Letter, a dispatch number that ends in
\* <digits>-<digits> derives the second number read as a decimal integer,
\* leading zeros ignored, and any other dispatch number derives nothing: from
\* {0, 0}, the rescan of the row and the advance of the entry leave
\* nextLetterNumber at that number plus one, or at 0.
C13_LetterParsing ==
    LET s == sheet[2][1]
    IN  (last.op \in {"rescanOk", "addOk"} /\ sheet[2][4] = LetterType) =>
            lastDispatchNumbers.letters =
                IF EndsInDigitPair(s) THEN Num(Decimal(TrailingRun(s)) + 1)
                ELSE Num(0)

\* The Letter entry "X7-07" was appended and advanced the field to 8.
C13_Witness ==
    /\ last.op = "addOk"
    /\ sheet[2] = SheetRow(<<"X", "7", "-", "0", "7">>, LetterType)
    /\ lastDispatchNumbers.letters = Num(8)

\* C14: for any class other than Letter, a dispatch number that ends in a
\* digit derives its longest run of trailing digits read as a decimal
\* integer, and one that does not end in a digit derives nothing: from
\* {0, 0}, the rescan of the row and the advance of the entry leave
\* nextOtherNumber at that number plus one, or at 0.
C14_OtherParsing ==
    LET s == sheet[2][1]
    IN  (last.op \in {"rescanOk", "addOk"} /\ sheet[2][4] # LetterType) =>
            lastDispatchNumbers.others =
                IF EndsInDigits(s) THEN Num(Decimal(TrailingRun(s)) + 1)
                ELSE Num(0)

\* The rescan of the Memo row "7-077" raised the field to 78.
C14_Witness ==
    /\ last.op = "rescanOk"
    /\ sheet[2] = SheetRow(<<"7", "-", "0", "7", "7">>, Memo)
    /\ lastDispatchNumbers.others = Num(78)

\* A row with no dispatch number, with no file type, or whose dispatch number
\* derives no number for its class
BadRow(row) ==
    \/ Len(row) < 4
    \/ row[1] = <<>>
    \/ row[4] = <<>>
    \/ Unparsable(row[4], row[1])

\* The rows without the k-th
RemoveAt(rows, k) == SubSeq(rows, 1, k - 1) \o SubSeq(rows, k + 1, Len(rows))

\* C15 as stated, for every row of the read, the first included: the cache
\* after the rescan is the one the rescan computes without the bad row.
C15_AnyBadRowIsAsIfAbsent ==
    [][last'.op = "rescanOk" =>
          LET rows == req[last'.r].rows
          IN  /\ last'.status = 200
              /\ \A k \in 1..Len(rows) :
                    BadRow(rows[k]) =>
                        lastDispatchNumbers' =
                            updateLastNumbersFromSheet(lastDispatchNumbers, TRUE,
                                                       RemoveAt(rows, k))]_vars

\* C15: a read that resolved is always merged and answered, whatever its
\* rows hold, and a row after the first that lacks a dispatch number or a
\* file type, or whose dispatch number does not parse for its class, counts
\* for nothing: the cache after the rescan is the one the rescan computes
\* from the same rows without that row.
C15_BadRowsAreSkipped ==
    [][last'.op = "rescanOk" =>
          LET rows == req[last'.r].rows
          IN  /\ last'.status = 200
              /\ last'.hasSnap
              /\ \A k \in 2..Len(rows) :
                    BadRow(rows[k]) =>
                        lastDispatchNumbers' =
                            updateLastNumbersFromSheet(lastDispatchNumbers, TRUE,
                                                       RemoveAt(rows, k))]_vars

\* A rescan of the sheet with a row lacking its file type, a row lacking its
\* dispatch number and a Letter row that is not of the Letter grammar was
\* answered, and only the Memo row counted.
C15_Witness ==
    /\ last.op = "rescanOk"
    /\ last.status = 200
    /\ sheet = SheetMessy
    /\ \E k \in 2..Len(sheet) : BadRow(sheet[k])
    /\ last.before = Zero
    /\ lastDispatchNumbers = [letters |-> Num(0), others |-> Num(8)]

\* C16: an item of class "Letter" changes at most nextLetterNumber and an
\* item of any other class at most nextOtherNumber.  An advance and a setNext
\* leave the field of the other class as it was; a rescan changes a field
\* only to one more than the number of a counted row of that class and
\* grammar, so a Letter row or entry that fails the Letter grammar never
\* reaches nextOtherNumber.
C16_ClassIsolation ==
    [][/\ last'.op = "addOk" =>
            IF req[last'.r].fileType = LetterType
            THEN lastDispatchNumbers'.others = lastDispatchNumbers.others
            ELSE lastDispatchNumbers'.letters = lastDispatchNumbers.letters
       /\ last'.op = "setNext" =>
            \A b \in SetNextInputs :
                UpdateLastDispatchNumber(b.type, b.newTotal) =>
                    IF b.type = LetterType
                    THEN lastDispatchNumbers'.others = lastDispatchNumbers.others
                    ELSE lastDispatchNumbers'.letters = lastDispatchNumbers.letters
       /\ last'.op = "rescanOk" =>
            LET rows == req[last'.r].rows
            IN  /\ lastDispatchNumbers'.letters # lastDispatchNumbers.letters =>
                      \E k \in CountedRows(rows) :
                          /\ rows[k][4] = LetterType
                          /\ EndsInDigitPair(rows[k][1])
                          /\ lastDispatchNumbers'.letters =
                                 Num(Decimal(TrailingRun(rows[k][1])) + 1)
                /\ lastDispatchNumbers'.others # lastDispatchNumbers.others =>
                      \E k \in CountedRows(rows) :
                          /\ rows[k][4] # LetterType
                          /\ EndsInDigits(rows[k][1])
                          /\ lastDispatchNumbers'.others =
                                 Num(Decimal(TrailingRun(rows[k][1])) + 1)]_vars

\* The Letter entry "X/07", which ends in digits but not in a hyphen pair,
\* was appended and advanced: nextOtherNumber is still 0.
C16_Witness ==
    /\ last.op = "addOk"
    /\ sheet = <<SheetRow(S07, LetterType)>>
    /\ EndsInDigits(sheet[1][1])
    /\ lastDispatchNumbers.others = Num(0)
    /\ lastDispatchNumbers.letters = last.before.letters

\* The field of the class of a file type
ClassField(cache, fileType) ==
    IF fileType = LetterType THEN cache.letters ELSE cache.others

\* The request r was received while another was in flight (it took a slot
\* after the first), or another request is in flight now
Racing(r) == r >= 2 \/ \E q \in Slots \ {r} : req[q].pc # "idle"

\* C17: with addEntry requests in flight at once, the cache is untouched
\* while a request is received and while its append is pending, and the
\* advance of a request runs when its own awaited append has returned: it
\* sets the field of its class to its own derived number plus one, whatever
\* the other request wrote.  The field after both responses is therefore the
\* one written by the request whose append returned last, the larger number
\* or not.
C17_LastWriterWins ==
    [][/\ last'.op \in {"addStart", "addSettled"} =>
            lastDispatchNumbers' = lastDispatchNumbers
       /\ (/\ last'.op = "addOk"
           /\ Racing(last'.r)
           /\ ~Unparsable(req[last'.r].fileType, req[last'.r].dispatchNumber))
             => ClassField(lastDispatchNumbers', req[last'.r].fileType) =
                    Num(Decimal(TrailingRun(req[last'.r].dispatchNumber)) + 1)]_vars

\* Two Letter entries were in flight at once (the second request took slot
\* 2): X/1-99 was appended and advanced first, to 100; X/1-5 was appended and
\* advanced last, and nextLetterNumber is 6 once both have responded.
C17_Witness ==
    /\ requests = 2
    /\ \A q \in Slots : req[q].pc = "idle"
    /\ last.op = "addOk"
    /\ last.r = 2
    /\ sheet = <<SheetRow(S199, LetterType), SheetRow(S15, LetterType)>>
    /\ last.before.letters = Num(100)
    /\ lastDispatchNumbers.letters = Num(6)

\* The request in slot r is waiting on the spreadsheet service or on its
\* continuation
InFlight(r) == req[r].pc # "idle"

\* The step just taken sent the response of the request in slot r
Answered(r) == last.r = r /\ last.status # 0

\* C18: with every external call settling and every continuation run, each
\* request is answered: a request in flight eventually gets its response;
\* the response of a request in flight is sent in the step that ends it and
\* in no other, and a request that is not left in flight is answered in the
\* step that receives it; and the next step of a request in flight is
\* enabled whatever the other requests are doing.
C18_EveryRequestAnsweredOnce ==
    /\ \A r \in Slots : InFlight(r) ~> Answered(r)
    /\ [][/\ \A r \in Slots :
                InFlight(r) => (Answered(r)' <=> ~InFlight(r)')
          /\ requests' # requests => (last'.status # 0 <=> req' = req)]_vars
    /\ [](\A r \in Slots :
            /\ req[r].pc = "reading" => ENABLED SheetsGetSettles(r)
            /\ req[r].pc \in {"readOk", "readErr"} =>
                   ENABLED GetLastDispatchNumbersResume(r)
            /\ req[r].pc = "appending" => ENABLED SheetsAppendSettles(r)
            /\ req[r].pc \in {"appendOk", "appendErr"} =>
                   ENABLED AddEntryResume(r))

\* An addEntry received second was answered while the GET received before it
\* is still waiting for its read.
C18_Witness ==
    /\ last.op = "addOk"
    /\ last.r = 2
    /\ last.status = 200
    /\ req[1].pc = "reading"
    /\ req[2].pc = "idle"

\* x is a number and at least one more than every number of the set
AboveAll(x, numbers) == \A n \in numbers : ~x.nan /\ x.val >= n + 1

\* C19: the snapshot a GET answers with, when its row read succeeded, has
\* each field at least one more than every number derivable from the rows of
\* its class that the read returned, whatever advance and setNext did while
\* the read was pending.
C19_SnapshotCoversRowsRead ==
    [][last'.op = "rescanOk" =>
          LET rows == req[last'.r].rows
          IN  /\ last'.hasSnap
              /\ AboveAll(last'.snap.letters, LetterNumbers(rows))
              /\ AboveAll(last'.snap.others, OtherNumbers(rows))]_vars

\* C20: with one request at a time, a successful rescan leaves each field at
\* least one more than the largest number derivable from the data rows of
\* its class in the sheet, whatever advance and setNext did before it.
C20_RescanRecovers ==
    [][last'.op = "rescanOk" =>
          /\ LetterNumbers(sheet') # {} =>
                 /\ ~lastDispatchNumbers'.letters.nan
                 /\ lastDispatchNumbers'.letters.val >=
                        SetMax(LetterNumbers(sheet')) + 1
          /\ OtherNumbers(sheet') # {} =>
                 /\ ~lastDispatchNumbers'.others.nan
                 /\ lastDispatchNumbers'.others.val >=
                        SetMax(OtherNumbers(sheet')) + 1]_vars

\* The number a row derives for a class: of the Letter grammar when letter,
\* of the other grammar when not; -1 when the row is of the other class or
\* derives nothing
RowNumber(row, letter) ==
    IF (row[4] = LetterType) # letter \/ Unparsable(row[4], row[1]) THEN -1
    ELSE Decimal(TrailingRun(row[1]))

\* The numbers of each class grow strictly along the rows
IncreasingPerClass(rows) ==
    \A letter \in BOOLEAN :
        \A i, j \in 1..Len(rows) :
            (i < j /\ RowNumber(rows[i], letter) >= 0
                   /\ RowNumber(rows[j], letter) >= 0)
                => RowNumber(rows[i], letter) < RowNumber(rows[j], letter)

\* The advance of the entry (fileType, dispatchNumber) and the rescan of its
\* row agree: the field the row gives a candidate for is set to that
\* candidate, and a field the row gives no candidate for is left as it was
AdvanceAgreesWithRow(before, after, fileType, dispatchNumber) ==
    LET cand == RowUpdate(Zero, SheetRow(dispatchNumber, fileType))
    IN  /\ after.letters =
               IF cand.letters # Num(0) THEN cand.letters ELSE before.letters
        /\ after.others =
               IF cand.others # Num(0) THEN cand.others ELSE before.others

\* The entries appended so far: the rows after the header when the sheet has
\* one, every row when it has none
AppendedRows == IF sheet # <<>> /\ sheet[1] = HeaderRow THEN Tail(sheet) ELSE sheet

\* C21 as stated, whether or not the sheet has a header row: after each
\* advance of entries appended in strictly increasing order per class from
\* {0, 0}, the cache is the one a rescan from {0, 0} over the sheet produces.
C21_AdvanceEqualsRescan ==
    (last.op = "addOk" /\ IncreasingPerClass(AppendedRows)) =>
        lastDispatchNumbers = Rebuilt(sheet)

\* C21: the advance of an accepted entry sets a field to v + 1 exactly when
\* the rescan of the row of that entry derives the candidate v + 1 for that
\* field; and on a sheet whose first row is the header, when the entries
\* were appended one at a time with strictly increasing numbers per class
\* from {0, 0}, the cache after each advance is the one a rescan from {0, 0}
\* over the sheet produces.
C21_AdvanceEqualsRescanBelowHeader ==
    /\ [][last'.op = "addOk" =>
             AdvanceAgreesWithRow(lastDispatchNumbers, lastDispatchNumbers',
                                  req[last'.r].fileType,
                                  req[last'.r].dispatchNumber)]_vars
    /\ []((/\ last.op = "addOk"
           /\ sheet[1] = HeaderRow
           /\ IncreasingPerClass(Tail(sheet)))
             => lastDispatchNumbers = Rebuilt(sheet))

\* Below the header, X/1-5 and then X/1-99 were appended as Letter entries;
\* the advance left 100, which is what a rescan from {0, 0} computes.
C21_Witness ==
    /\ last.op = "addOk"
    /\ sheet = <<HeaderRow, SheetRow(S15, LetterType), SheetRow(S199, LetterType)>>
    /\ IncreasingPerClass(Tail(sheet))
    /\ lastDispatchNumbers = [letters |-> Num(100), others |-> Num(0)]
    /\ lastDispatchNumbers = Rebuilt(sheet)

====
